---- MODULE Spec2Model ----
(***************************************************************************)
(* Domo activity-log synchroniser: the OAuth token cache (auth.py), the    *)
(* paginated audit fetch (activty_log_pull.py), the multi-tenant run       *)
(* (main.py) and the dataset sink (domo_dataset.py), as one state machine. *)
(* Time is counted in minutes.  Optional values are sequences of length    *)
(* at most one: None is <<>>, Some(x) is <<x>>.                            *)
(***************************************************************************)
EXTENDS Integers, Sequences, FiniteSets, TLC

\* ------------------------------------------------------------------ bounds
\* number of rows of the credentials file
NTenants == 2
\* the audit API serves at most this many non-empty pages in one run
MaxPages == 2
\* batch_size argument of get_logs (the limit of one page)
BatchSize == 2
\* the clock advances at most this many times
MaxTicks == 2

\* ------------------------------------------------------- program constants
\* Authentication.__init__: token_expiry_buffer, minutes
token_expiry_buffer == 5
\* _refresh_token: token_data.get('expires_in', 3600), seconds
DefaultExpiresIn == 3600

None == <<>>
Some(x) == <<x>>

\* the status codes a server may answer with: success, a redirection that
\* requests does not follow (304, or a 3xx without Location), client error,
\* server error
Statuses == {200, 204, 304, 404, 500}

\* requests.Response.raise_for_status: HTTPError for 400..599, nothing otherwise
raise_for_status(status) == status >= 400 /\ status < 600

Tenants == 1..NTenants
\* the credentials of the environment (CLIENT_ID, CLIENT_SECRET) are tenant 0
EnvTenant == 0

VARIABLES
  now,        \* datetime.now(), minutes
  auth,       \* the two Authentication objects alive: "audit" and "data"
  last,       \* the most recent call on an authenticator, or op "none"
  pc,         \* position of the caller (main.py, or "api" for a library caller)
  idx,        \* row of credentials.iterrows() being processed
  fetch,      \* locals of DomoActivityLog.get_logs for the current row
  results,    \* how each row ended
  combined,   \* all_activity_data
  csv,        \* data/activity_log_data.csv
  sink,       \* the DomoDataset object
  remote,     \* the dataset service
  audit       \* the audit service: the non-empty pages it has served

vars == <<now, auth, last, pc, idx, fetch, results, combined, csv, sink, remote, audit>>

\* ------------------------------------------------------------ auth.py
\* Authentication.__init__; secret is "given" for the secret of the credentials
\* cred; nreq counts the requests sent to the token endpoint and seen tells
\* whether a response has ever supplied a domain
NewAuth(cred, scope) ==
  [cred |-> cred, secret |-> "given", scope |-> scope, token |-> None,
   expiry |-> None, domain |-> None, nreq |-> 0, seen |-> FALSE]

\* Authentication(client_id, nan, 'audit'): the cell of client_secret was empty
\* and pandas read it as NaN, which f'{self.client_id}:{self.secret}' turns
\* into the secret "nan"
NewAuthNaN(cred, scope) == [NewAuth(cred, scope) EXCEPT !.secret = "nan"]

\* _is_token_expired as it would be without the buffer
IsTokenExpiredNoBuffer(a, t) ==
  IF a.expiry = None THEN TRUE
  ELSE t >= a.expiry[1]

\* Authentication._is_token_expired
IsTokenExpired(a, t) ==
  IF a.expiry = None THEN TRUE
  ELSE t >= a.expiry[1] - token_expiry_buffer

\* the guard as it would be without the test of the expiry
RefreshOnlyWhenAbsent(a, t) == a.token = None

\* the guard of the token property: not self._token or self._is_token_expired()
NeedsRefresh(a, t) == a.token = None \/ IsTokenExpired(a, t)

\* what the OAuth token endpoint may answer to the authenticator a:
\* a transport failure (no status), an error status, a body that is not JSON,
\* or a JSON object with or without access_token, expires_in (seconds) and
\* domain; the JSON object may also come with a 3xx status
GoodTokenResponses(a) ==
  {[kind |-> "transport", status |-> 0,
    access_token |-> None, expires_in |-> None, domain |-> None]}
  \cup
  {[kind |-> "http", status |-> 404,
    access_token |-> None, expires_in |-> None, domain |-> None]}
  \cup
  {[kind |-> "badjson", status |-> 200,
    access_token |-> None, expires_in |-> None, domain |-> None]}
  \cup
  {[kind |-> "json", status |-> 200,
    access_token |-> None, expires_in |-> None, domain |-> None]}
  \cup
  {[kind |-> "json", status |-> 200,
    access_token |-> Some(a.nreq + 1), expires_in |-> e, domain |-> d] :
      e \in {None, Some(300), Some(600)}, d \in {None, Some(a.cred)}}
  \cup
  {[kind |-> "json", status |-> 304,
    access_token |-> Some(a.nreq + 1), expires_in |-> None, domain |-> Some(a.cred)]}

\* the token endpoint does not know the secret "nan": the request fails in
\* transport or is refused with an error status
BadTokenResponses(a) ==
  {[kind |-> k, status |-> IF k = "http" THEN 404 ELSE 0,
    access_token |-> None, expires_in |-> None, domain |-> None] :
      k \in {"transport", "http"}}

\* what the OAuth token endpoint may answer to the authenticator a
TokenResponses(a) ==
  IF a.secret = "nan" THEN BadTokenResponses(a) ELSE GoodTokenResponses(a)

\* token_data.get('expires_in', 3600)
ExpiresIn(r) == IF r.expires_in = None THEN DefaultExpiresIn ELSE r.expires_in[1]

\* _refresh_token as it would be if the expiry were stored before the check of
\* access_token and the token attribute only set when present
RefreshMissingTokenKeepsOld(a, t, r) ==
  IF r.kind = "transport" \/ raise_for_status(r.status) \/ r.kind = "badjson"
    THEN [auth |-> [a EXCEPT !.nreq = @ + 1], err |-> Some("DomoAuthError")]
  ELSE IF r.access_token = None
    THEN [auth |-> [a EXCEPT !.nreq = @ + 1,
                             !.expiry = Some(t + (ExpiresIn(r) \div 60))],
          err |-> Some("DomoAuthError")]
  ELSE [auth |-> [a EXCEPT !.nreq = @ + 1,
                           !.token = r.access_token,
                           !.expiry = Some(t + (ExpiresIn(r) \div 60)),
                           !.domain = r.domain,
                           !.seen = @ \/ r.domain # None],
        err |-> None]

\* Authentication._refresh_token: the authenticator afterwards and the error raised
RefreshToken(a, t, r) ==
  IF r.kind = "transport" \/ raise_for_status(r.status) \/ r.kind = "badjson"
    THEN [auth |-> [a EXCEPT !.nreq = @ + 1], err |-> Some("DomoAuthError")]
  ELSE IF r.access_token = None
    THEN [auth |-> [a EXCEPT !.nreq = @ + 1, !.token = None],
          err |-> Some("DomoAuthError")]
  ELSE [auth |-> [a EXCEPT !.nreq = @ + 1,
                           !.token = r.access_token,
                           !.expiry = Some(t + (ExpiresIn(r) \div 60)),
                           !.domain = r.domain,
                           !.seen = @ \/ r.domain # None],
        err |-> None]

\* Authentication.token (property)
GetToken(a, t, r) ==
  IF NeedsRefresh(a, t) THEN RefreshToken(a, t, r) ELSE [auth |-> a, err |-> None]

\* Authentication.get_credential_domain
GetCredentialDomain(a, t, r) ==
  IF a.domain = None THEN RefreshToken(a, t, r) ELSE [auth |-> a, err |-> None]

\* the record of a call on an authenticator
Call(op, which, before, after, r) ==
  [op |-> op, auth |-> which, requested |-> after.auth.nreq # before.nreq,
   resp |-> IF after.auth.nreq # before.nreq THEN r.kind ELSE "none",
   status |-> IF after.auth.nreq # before.nreq THEN r.status ELSE 0,
   hastoken |-> r.access_token # None,
   err |-> after.err, arg |-> None]

NoCall ==
  [op |-> "none", auth |-> "none", requested |-> FALSE, resp |-> "none",
   status |-> 0, hastoken |-> FALSE, err |-> None, arg |-> None]

\* ------------------------------------------------------------ utils.py
\* the date strings a caller may pass: "YYYY-MM-DD" of day 1..MaxDay, or a
\* string strptime rejects
MaxDay == 2

DateInputs ==
  {[valid |-> TRUE, day |-> d] : d \in 1..MaxDay} \cup {[valid |-> FALSE, day |-> 0]}

\* utils.date_to_unix_ms: midnight of the day, in milliseconds
date_to_unix_ms(d) ==
  IF d.valid THEN [err |-> None, ms |-> d.day * 24 * 3600 * 1000]
  ELSE [err |-> Some("ValueError"), ms |-> 0]

\* what the audit endpoint may answer to one page request, through
\* utils.make_request: RequestException (transport or status), ValueError
\* (invalid JSON), or a JSON array of n records
AuditResponses(nonempty) ==
  {[kind |-> k, n |-> 0] : k \in {"transport", "http", "badjson"}}
  \cup {[kind |-> "page", n |-> 0]}
  \cup {[kind |-> "page", n |-> n] : n \in (IF nonempty < MaxPages THEN 1..BatchSize ELSE {})}

\* a Content-Type value, as the sequence of its parts: the media type and,
\* possibly, a parameter; "x in value" is then "x is one of the parts"
ContentTypes ==
  {<<"application/json">>, <<"application/json", "; charset=utf-8">>, <<"text/csv">>}

\* the headers argument: with or without a Content-Type
RequestHeaders == {[content_type |-> c] : c \in {None} \cup {Some(t) : t \in ContentTypes}}

\* the data argument: None, or a body
RequestData == {None, Some("body")}

\* what requests.request may do: raise for a transport failure (status 0), or
\* return a response with a status, with or without a Content-Type header,
\* and a body that parses as JSON or does not
HttpResponses ==
  {[status |-> 0, content_type |-> None, parses |-> FALSE]}
  \cup
  {[status |-> st, content_type |-> c, parses |-> b] :
      st \in Statuses, c \in {None} \cup {Some(t) : t \in ContentTypes}, b \in BOOLEAN}

\* headers.get('Content-Type', 'application/json')
HeaderOr(h, default) == IF h = None THEN default ELSE h[1]

\* 'application/json' in response.headers.get('Content-Type', '')
ContainsJson(h) ==
  LET v == HeaderOr(h, <<>>) IN \E i \in DOMAIN v : v[i] = "application/json"

\* utils.make_request(url, headers, method, data, params): how data is sent
\* (json=, data= or not at all) and what comes back: the decoded JSON, the
\* text, or an exception
make_request(headers, data, resp) ==
  LET content_type == HeaderOr(headers.content_type, <<"application/json">>)
      sent == IF data = None THEN "nothing"
              ELSE IF content_type = <<"application/json">> THEN "json" ELSE "data"
  IN IF resp.status = 0
       THEN [sent |-> sent, outcome |-> "raised", err |-> Some("RequestException")]
     ELSE IF raise_for_status(resp.status)
       THEN [sent |-> sent, outcome |-> "raised", err |-> Some("RequestException")]
     ELSE IF ContainsJson(resp.content_type)
       THEN IF resp.parses
              THEN [sent |-> sent, outcome |-> "json", err |-> None]
              ELSE [sent |-> sent, outcome |-> "raised", err |-> Some("ValueError")]
     ELSE [sent |-> sent, outcome |-> "text", err |-> None]

\* utils.make_request: the exception raised for a response
RawError(kind) ==
  CASE kind \in {"transport", "http"} -> Some("RequestException")
    [] kind = "badjson" -> Some("ValueError")
    [] OTHER -> None

\* --------------------------------------------------- activty_log_pull.py
NewFetch ==
  [offset |-> 0, all_logs |-> <<>>,
   reqlog |-> <<>>, served |-> <<>>, result |-> None, exit |-> None]

\* the date check as it would be without the comparison of start and end
RangeErrorNoCheck(s, e) ==
  LET a == date_to_unix_ms(s)
      b == date_to_unix_ms(e)
  IN IF a.err # None \/ b.err # None THEN Some("DomoActivityLogError") ELSE None

\* get_logs, the date check: the error raised, if any
RangeError(s, e) ==
  LET a == date_to_unix_ms(s)
      b == date_to_unix_ms(e)
  IN IF a.err # None \/ b.err # None THEN Some("DomoActivityLogError")
     ELSE IF a.ms > b.ms THEN Some("DomoActivityLogError")
     ELSE None

\* DomoActivityLog._make_request: what it raises when the token property
\* (stage "token", outside its try) or make_request (stage "request") raises
ActivityRequestError(stage, raw) ==
  IF stage = "token" THEN raw ELSE "DomoActivityLogError"

\* the except clause as it would be if it named another exception type
LoopCatchesNothing(err) == FALSE

\* get_logs: the except clause of the pagination loop
LoopCatches(err) == err = "DomoActivityLogError"

\* the records of a page of n records served after k earlier ones to tenant t
Page(t, k, n) == [i \in 1..n |-> [src |-> t, n |-> k + i]]

\* all_logs.extend(json_data)
Extend(logs, page) == logs \o page

\* the advance as it would be if it counted the records received
NextOffsetByRecords(offset, page) == offset + Len(page)

\* offset += batch_size
NextOffset(offset, page) == offset + BatchSize

\* the end test as it would be if a page shorter than the limit ended the loop
StopsOnShortPage(page) == Len(page) < BatchSize

\* get_logs: if not json_data: break
IsLastPage(page) == page = <<>>

\* the tagging as it would be if only the first row got the value
TagFirstOnly(logs, d) ==
  [i \in 1..Len(logs) |->
     [src |-> logs[i].src, n |-> logs[i].n, domain |-> IF i = 1 THEN d ELSE None]]

\* df['domain'] = self.auth.get_credential_domain(): every row gets the value
Tag(logs, d) ==
  [i \in 1..Len(logs) |-> [src |-> logs[i].src, n |-> logs[i].n, domain |-> d]]

\* ---------------------------------------------------------------- main.py
\* the rows credentials.iterrows() may yield: both values present; the
\* column client_secret absent from the file; a falsy client_secret (0, or an
\* empty string); an empty cell, which pandas reads as NaN, a truthy float
RowKinds == {"ok", "missing_column", "empty_secret", "nan_secret"}

\* the handlers as they would be without except Exception
CatchesOnlyKeyError(err) == err = "KeyError"

\* the handlers as they would be if the second named DomoActivityLogError
CatchesOwnErrors(err) == err \in {"KeyError", "DomoActivityLogError"}

\* get_activity_data_from_csv: except KeyError, except Exception
OrchestratorCatches(err) == TRUE

\* the concatenation as it would be if the new table replaced the old one
ConcatReplaces(all, table) == table

\* pd.concat([all_activity_data, activity_log_data], ignore_index=True)
Concat(all, table) == all \o table

\* an exception leaves get_logs or the constructor for row t; f is the fetch
Propagate(f, t, err, stage) ==
  /\ fetch' = [f EXCEPT !.exit = Some([err |-> err, stage |-> stage])]
  /\ results' = [results EXCEPT ![t] = "raised"]
  /\ combined' = combined
  /\ IF OrchestratorCatches(err)
       THEN idx' = idx + 1 /\ pc' = "row"
       ELSE idx' = idx /\ pc' = "crashed"

\* get_logs returns table (None, or the tagged records) for row t
Return(f, t, table) ==
  /\ fetch' = [f EXCEPT !.result = table]
  /\ results' = [results EXCEPT ![t] = IF table = None THEN "absent" ELSE "table"]
  /\ combined' = IF table # None /\ table[1] # <<>> THEN Concat(combined, table[1])
                 ELSE combined
  /\ idx' = idx + 1
  /\ pc' = "row"

\* the loop of get_logs goes on, or ends, with fetch f
Goto(f, label) ==
  /\ fetch' = f
  /\ pc' = label
  /\ UNCHANGED <<idx, results, combined>>

NoResult == "pending"

\* for _, row in credentials.iterrows(): row access and DomoActivityLog(...)
ProcessRow ==
  /\ pc = "row" /\ idx <= NTenants
  /\ \E kind \in RowKinds :
       /\ auth' = [auth EXCEPT !.audit = IF kind = "nan_secret"
                                            THEN NewAuthNaN(idx, "audit")
                                            ELSE NewAuth(idx, "audit")]
       /\ last' = [NoCall EXCEPT !.op = "row", !.arg = Some(kind)]
       /\ CASE kind = "missing_column" -> Propagate(NewFetch, idx, "KeyError", "row")
            [] kind = "empty_secret" ->
                 Propagate(NewFetch, idx, "DomoActivityLogError", "construct")
            [] OTHER -> Goto(NewFetch, "get_logs")
  /\ UNCHANGED <<now, csv, sink, remote, audit>>

\* get_logs up to the loop: date conversion and range check
GetLogsStart ==
  /\ pc = "get_logs"
  /\ \E s \in DateInputs, e \in DateInputs :
       LET err == RangeError(s, e) IN
       /\ last' = [NoCall EXCEPT !.op = "get_logs", !.arg = Some(<<s, e>>)]
       /\ IF err # None
            THEN Propagate(fetch, idx, err[1], "dates")
            ELSE Goto(fetch, "page_token")
  /\ UNCHANGED <<now, auth, csv, sink, remote, audit>>

\* _make_request: headers, "Authorization": f"Bearer {self.auth.token}", with
\* the token endpoint answering from the given responses
PageTokenFrom(responses) ==
  /\ pc = "page_token"
  /\ \E r \in responses :
       LET g == GetToken(auth.audit, now, r) IN
       /\ auth' = [auth EXCEPT !.audit = g.auth]
       /\ last' = Call("get_token", "audit", auth.audit, g, r)
       /\ IF g.err = None
            THEN Goto(fetch, "page_request")
            ELSE LET e == ActivityRequestError("token", g.err[1]) IN
                 IF LoopCatches(e)
                   THEN Goto(fetch, "after_loop")
                   ELSE Propagate(fetch, idx, e, "token")
  /\ UNCHANGED <<now, csv, sink, remote, audit>>

\* _make_request: headers, "Authorization": f"Bearer {self.auth.token}"
PageToken == PageTokenFrom(TokenResponses(auth.audit))

\* the answers of a token endpoint whose tokens carry no expires_in, and so
\* live for DefaultExpiresIn seconds
LongLived(a) == {r \in TokenResponses(a) : r.expires_in = None}

\* the same step, with a token endpoint that issues only such tokens
PageTokenLongLived == PageTokenFrom(LongLived(auth.audit))

\* the non-empty pages among the answers to the page requests of a fetch
NonEmptyPages(f) == Cardinality({i \in DOMAIN f.reqlog : f.reqlog[i].n > 0})

\* _make_request: make_request(...), and the rest of the loop body
PageRequest ==
  /\ pc = "page_request"
  /\ \E resp \in AuditResponses(audit) :
       LET raw == RawError(resp.kind)
           page == Page(idx, Len(fetch.served), resp.n)
           f == [fetch EXCEPT !.reqlog = Append(@, [offset |-> fetch.offset,
                                                     ok |-> raw = None, n |-> resp.n]),
                              !.served = @ \o page]
       IN
       /\ last' = NoCall
       /\ audit' = IF resp.n > 0 THEN audit + 1 ELSE audit
       /\ IF raw # None
            THEN LET e == ActivityRequestError("request", raw[1]) IN
                 IF LoopCatches(e)
                   THEN Goto(f, "after_loop")
                   ELSE Propagate(f, idx, e, "request")
            ELSE IF IsLastPage(page)
              THEN Goto(f, "after_loop")
              ELSE Goto([f EXCEPT !.all_logs = Extend(@, page),
                                  !.offset = NextOffset(@, page)], "page_token")
  /\ UNCHANGED <<now, auth, csv, sink, remote>>

\* the loop body of get_logs served by an audit API that may answer every
\* page request with a non-empty page, without end.  The code keeps every
\* record it is given; the model keeps a finite memory: once MaxPages page
\* requests are on record the later ones are not recorded, so that the
\* endless run is a cycle of states.
PageRequestEcho ==
  /\ pc = "page_request"
  /\ \E resp \in AuditResponses(0) :
       LET raw == RawError(resp.kind)
           page == Page(idx, Len(fetch.served), resp.n)
           full == Len(fetch.reqlog) >= MaxPages
           f == IF full THEN fetch
                ELSE [fetch EXCEPT !.reqlog = Append(@, [offset |-> fetch.offset,
                                                          ok |-> raw = None, n |-> resp.n]),
                                   !.served = @ \o page]
       IN
       /\ last' = NoCall
       /\ IF raw # None
            THEN LET e == ActivityRequestError("request", raw[1]) IN
                 IF LoopCatches(e)
                   THEN Goto(f, "after_loop")
                   ELSE Propagate(f, idx, e, "request")
            ELSE IF IsLastPage(page)
              THEN Goto(f, "after_loop")
              ELSE Goto(IF full THEN f
                        ELSE [f EXCEPT !.all_logs = Extend(@, page),
                                       !.offset = NextOffset(@, page)], "page_token")
  /\ UNCHANGED <<now, auth, csv, sink, remote, audit>>

\* get_logs after the loop: return None, or tag with the domain and return
AfterLoop ==
  /\ pc = "after_loop"
  /\ IF fetch.all_logs = <<>>
       THEN /\ Return(fetch, idx, None)
            /\ last' = NoCall
            /\ auth' = auth
       ELSE \E r \in TokenResponses(auth.audit) :
              LET g == GetCredentialDomain(auth.audit, now, r) IN
              /\ auth' = [auth EXCEPT !.audit = g.auth]
              /\ last' = Call("get_domain", "audit", auth.audit, g, r)
              /\ IF g.err # None
                   THEN Propagate(fetch, idx, g.err[1], "domain")
                   ELSE Return(fetch, idx, Some(Tag(fetch.all_logs, g.auth.domain)))
  /\ UNCHANGED <<now, csv, sink, remote, audit>>

\* the return as it would be without the test for an empty frame
AlwaysSomeData(all) == Some(all)

\* return all_activity_data if not all_activity_data.empty else None
ActivityData(all) == IF all = <<>> THEN None ELSE Some(all)

\* get_activity_data_from_csv returns, and __main__ tests activity_data;
\* the last DomoActivityLog is no longer referenced
EndOfRows ==
  /\ pc = "row" /\ idx > NTenants
  /\ pc' = IF ActivityData(combined) = None THEN "done" ELSE "save"
  /\ last' = NoCall
  /\ fetch' = NewFetch
  /\ auth' = [auth EXCEPT !.audit = NewAuth(EnvTenant, "audit")]
  /\ UNCHANGED <<now, idx, results, combined, csv, sink, remote, audit>>

\* DataFrame.to_csv(index=False): the header row and one row per record
ToCsv(table) ==
  [header |-> <<"src", "n", "domain">>,
   rows |-> [i \in 1..Len(table) |-> <<table[i].src, table[i].n, table[i].domain>>]]

\* save_dataframe_to_csv(activity_data, 'data/activity_log_data.csv')
SaveCsv ==
  /\ pc = "save"
  /\ csv' = Some(ToCsv(combined))
  /\ pc' = "send"
  /\ last' = NoCall
  /\ UNCHANGED <<now, auth, idx, fetch, results, combined, sink, remote, audit>>

\* the program is about to read the clock: the next step evaluates the token
\* property or get_credential_domain
ReadsClockNext ==
  \/ pc \in {"page_token", "after_loop", "auth", "api"}
  \/ sink.pc \in {"create_token", "put_token", "get_token"}

\* the clock; time that passes elsewhere shows at the next read
Tick ==
  /\ ReadsClockNext
  /\ now < MaxTicks * token_expiry_buffer
  /\ now' = now + token_expiry_buffer
  /\ last' = NoCall
  /\ UNCHANGED <<auth, pc, idx, fetch, results, combined, csv, sink, remote, audit>>

\* -------------------------------------------------------- domo_dataset.py
\* number of calls a library caller makes on one DomoDataset
MaxCalls == 3

\* dataset ids: the one a caller supplies, and the k-th the service assigns
GivenId == [kind |-> "given", n |-> 0]
CreatedId(k) == [kind |-> "created", n |-> k]

NoSink ==
  [pc |-> "none", dsid |-> None, op |-> "none", table |-> None, dsid0 |-> None,
   returned |-> None, reqs |-> <<>>, outcome |-> "none", err |-> None,
   stage |-> "none", file |-> None, calls |-> 0]

\* what a dataset endpoint may answer, through utils.make_request: a
\* transport failure before the request arrives, a transport failure after the
\* service carried the request out (the response is lost), an error status, a
\* 2xx JSON response that does not parse, a 2xx JSON object with or without
\* "id", or a 2xx text body
DatasetResponses ==
  {"transport", "lost", "http", "badjson", "json_id", "json_noid", "text"}

Is2xx(kind) == kind \in {"badjson", "json_id", "json_noid", "text"}

\* the service carried the request out
Served(kind) == Is2xx(kind) \/ kind = "lost"

\* DomoDataset._make_request: what it raises when the token property (stage
\* "token", outside its try) or make_request (stage "request") raises
DatasetRequestError(stage, raw) ==
  IF stage = "token" THEN raw ELSE "DomoDatasetError"

\* create_dataset: except Exception -> DomoDatasetError
CreateRaises(e) == "DomoDatasetError"

\* upload_data as it would be without its try around the PUT
UploadPassesThrough(e) == e

\* upload_data: except Exception -> DomoDatasetError
UploadRaises(e) == "DomoDatasetError"

\* get_data: except Exception -> DomoDatasetError
DownloadRaises(e) == "DomoDatasetError"

\* upload_data as it would be if it created a dataset on every call
CreatesAlways(dsid) == TRUE

\* upload_data as it would be if it tested the id given to the constructor
CreatesUnlessGiven(dsid) == dsid # Some(GivenId)

\* upload_data: if not self.dsid
MustCreate(dsid) == dsid = None

\* upload_data: the dataset the PUT is sent to, f'{self.dsid}/data'
PutTarget(s) == s.dsid

\* upload_data calls create_dataset outside any try: when it raises,
\* upload_data does not go on to the PUT
ContinuesAfterCreateError(e) == FALSE

\* the caller of the sink gets control back
CallerAfter == IF pc = "send" THEN "done" ELSE pc

\* DomoDataset.__init__: CLIENT_ID and CLIENT_SECRET are set in the environment
Constructed(dsid) ==
  [NoSink EXCEPT !.pc = "idle", !.dsid = dsid, !.op = "construct", !.outcome = "ok"]

\* DomoDataset.__init__: they are not
ConstructFailed ==
  [NoSink EXCEPT !.pc = "idle", !.op = "construct", !.outcome = "raised",
                 !.stage = "construct", !.err = Some("DomoDatasetError")]

\* upload_data(data) up to the first request
BeginUpload(s, data) ==
  [s EXCEPT !.op = "upload", !.table = Some(data), !.dsid0 = s.dsid, !.returned = None,
            !.reqs = <<>>, !.outcome = "none", !.err = None, !.stage = "none",
            !.calls = @ + 1,
            !.pc = IF MustCreate(s.dsid) THEN "create_token" ELSE "put_token"]

\* get_data(output_path) up to the first request
BeginDownload(s) ==
  IF s.dsid = None
    THEN [s EXCEPT !.op = "download", !.dsid0 = s.dsid, !.returned = None, !.reqs = <<>>,
                   !.outcome = "raised", !.err = Some("DomoDatasetError"),
                   !.stage = "dsid", !.calls = @ + 1]
    ELSE [s EXCEPT !.op = "download", !.dsid0 = s.dsid, !.returned = None, !.reqs = <<>>,
                   !.outcome = "none", !.err = None, !.stage = "none", !.calls = @ + 1,
                   !.pc = "get_token"]

\* send_data_to_domo(dsid, activity_data)
SendData ==
  /\ pc = "send"
  /\ sink.pc = "none"
  /\ \E dsid \in {None, Some(GivenId)}, envok \in BOOLEAN :
       IF envok
         THEN /\ sink' = BeginUpload(Constructed(dsid), combined)
              /\ auth' = [auth EXCEPT !.data = NewAuth(EnvTenant, "data")]
              /\ pc' = pc
         ELSE /\ sink' = ConstructFailed
              /\ auth' = auth
              /\ pc' = "done"
  /\ last' = NoCall
  /\ UNCHANGED <<now, idx, fetch, results, combined, csv, remote, audit>>

\* an operation of the sink ends
SinkEnds(s, stage, outcome, err) ==
  /\ sink' = [s EXCEPT !.pc = "idle", !.stage = stage, !.outcome = outcome, !.err = err]
  /\ pc' = CallerAfter

\* _make_request('POST', ''): the Authorization header
SinkCreateToken ==
  /\ sink.pc = "create_token"
  /\ \E r \in TokenResponses(auth.data) :
       LET g == GetToken(auth.data, now, r) IN
       /\ auth' = [auth EXCEPT !.data = g.auth]
       /\ last' = Call("get_token", "data", auth.data, g, r)
       /\ IF g.err = None
            THEN sink' = [sink EXCEPT !.pc = "create_post"] /\ pc' = pc
            ELSE LET e == CreateRaises(DatasetRequestError("token", g.err[1])) IN
                 IF ContinuesAfterCreateError(e)
                   THEN sink' = [sink EXCEPT !.pc = "put_token"] /\ pc' = pc
                   ELSE SinkEnds(sink, "create", "raised", Some(e))
  /\ UNCHANGED <<now, idx, fetch, results, combined, csv, remote, audit>>

\* _make_request('POST', ''): make_request, then self.dsid = response['id']
SinkCreatePost ==
  /\ sink.pc = "create_post"
  /\ \E k \in DatasetResponses :
       LET s == [sink EXCEPT !.reqs = Append(@, [method |-> "POST", target |-> None])]
           id == CreatedId(Len(remote.created) + 1)
           raw == CASE ~Is2xx(k) -> Some(DatasetRequestError("request", "RequestException"))
                    [] k = "badjson" -> Some(DatasetRequestError("request", "ValueError"))
                    [] k = "json_noid" -> Some("KeyError")
                    [] k = "text" -> Some("TypeError")
                    [] OTHER -> None
       IN
       /\ remote' = IF Served(k) THEN [remote EXCEPT !.created = Append(@, id)] ELSE remote
       /\ IF raw = None
            THEN sink' = [s EXCEPT !.dsid = Some(id), !.returned = Some(id),
                                   !.pc = "put_token"] /\ pc' = pc
            ELSE LET e == CreateRaises(raw[1]) IN
                 IF ContinuesAfterCreateError(e)
                   THEN sink' = [s EXCEPT !.pc = "put_token"] /\ pc' = pc
                   ELSE SinkEnds(s, "create", "raised", Some(e))
  /\ last' = NoCall
  /\ UNCHANGED <<now, auth, idx, fetch, results, combined, csv, audit>>

\* _make_request('PUT', f'{self.dsid}/data'): the Authorization header
SinkPutToken ==
  /\ sink.pc = "put_token"
  /\ \E r \in TokenResponses(auth.data) :
       LET g == GetToken(auth.data, now, r) IN
       /\ auth' = [auth EXCEPT !.data = g.auth]
       /\ last' = Call("get_token", "data", auth.data, g, r)
       /\ IF g.err = None
            THEN sink' = [sink EXCEPT !.pc = "put"] /\ pc' = pc
            ELSE SinkEnds(sink, "put", "raised",
                          Some(UploadRaises(DatasetRequestError("token", g.err[1]))))
  /\ UNCHANGED <<now, idx, fetch, results, combined, csv, remote, audit>>

\* _make_request('PUT', f'{self.dsid}/data', data=csv_data.getvalue())
SinkPut ==
  /\ sink.pc = "put"
  /\ \E k \in DatasetResponses :
       LET target == PutTarget(sink)
           s == [sink EXCEPT !.reqs = Append(@, [method |-> "PUT", target |-> target])]
           raw == CASE ~Is2xx(k) -> Some(DatasetRequestError("request", "RequestException"))
                    [] k = "badjson" -> Some(DatasetRequestError("request", "ValueError"))
                    [] OTHER -> None
       IN
       /\ remote' = IF Served(k)
                      THEN [remote EXCEPT !.data = Some([id |-> target, csv |-> ToCsv(sink.table[1])])]
                      ELSE remote
       /\ IF raw = None
            THEN SinkEnds(s, "put", "ok", None)
            ELSE SinkEnds(s, "put", "raised", Some(UploadRaises(raw[1])))
  /\ last' = NoCall
  /\ UNCHANGED <<now, auth, idx, fetch, results, combined, csv, audit>>

\* _make_request('GET', f'{self.dsid}/data'): the Authorization header
SinkGetToken ==
  /\ sink.pc = "get_token"
  /\ \E r \in TokenResponses(auth.data) :
       LET g == GetToken(auth.data, now, r) IN
       /\ auth' = [auth EXCEPT !.data = g.auth]
       /\ last' = Call("get_token", "data", auth.data, g, r)
       /\ IF g.err = None
            THEN sink' = [sink EXCEPT !.pc = "get"] /\ pc' = pc
            ELSE SinkEnds(sink, "get", "raised",
                          Some(DownloadRaises(DatasetRequestError("token", g.err[1]))))
  /\ UNCHANGED <<now, idx, fetch, results, combined, csv, remote, audit>>

\* the text the service holds for a dataset
StoredText(id) ==
  IF remote.data # None /\ Some(remote.data[1].id) = id
    THEN remote.data[1].csv
    ELSE ToCsv(<<>>)

\* _make_request('GET', f'{self.dsid}/data'), then output_path.write_text(response)
SinkGet ==
  /\ sink.pc = "get"
  /\ \E k \in DatasetResponses :
       LET s == [sink EXCEPT !.reqs = Append(@, [method |-> "GET", target |-> sink.dsid])]
           raw == CASE ~Is2xx(k) -> Some(DatasetRequestError("request", "RequestException"))
                    [] k = "badjson" -> Some(DatasetRequestError("request", "ValueError"))
                    [] k \in {"json_id", "json_noid"} -> Some("TypeError")
                    [] OTHER -> None
       IN
       IF raw = None
         THEN SinkEnds([s EXCEPT !.file = Some(StoredText(sink.dsid))], "get", "ok", None)
         ELSE SinkEnds(s, "get", "raised", Some(DownloadRaises(raw[1])))
  /\ last' = NoCall
  /\ UNCHANGED <<now, auth, idx, fetch, results, combined, csv, remote, audit>>

\* ------------------------------------------------- a caller of DomoDataset
\* the tables a library caller uploads
ApiTables == {Tag(Page(1, 0, n), Some(1)) : n \in 1..BatchSize}

\* DomoDataset(dsid)
ApiConstruct ==
  /\ pc = "api"
  /\ sink.pc = "none"
  /\ \E dsid \in {None, Some(GivenId)}, envok \in BOOLEAN :
       IF envok
         THEN /\ sink' = Constructed(dsid)
              /\ auth' = [auth EXCEPT !.data = NewAuth(EnvTenant, "data")]
         ELSE /\ sink' = ConstructFailed
              /\ auth' = auth
  /\ last' = NoCall
  /\ UNCHANGED <<now, pc, idx, fetch, results, combined, csv, remote, audit>>

\* domo_dataset.upload_data(data)
ApiUpload ==
  /\ pc = "api"
  /\ sink.pc = "idle" /\ (sink.op = "construct" => sink.outcome = "ok")
  /\ sink.calls < MaxCalls
  /\ \E data \in ApiTables : sink' = BeginUpload(sink, data)
  /\ last' = NoCall
  /\ UNCHANGED <<now, auth, pc, idx, fetch, results, combined, csv, remote, audit>>

\* domo_dataset.get_data()
ApiDownload ==
  /\ pc = "api"
  /\ sink.pc = "idle" /\ (sink.op = "construct" => sink.outcome = "ok")
  /\ sink.calls < MaxCalls
  /\ sink' = BeginDownload(sink)
  /\ last' = NoCall
  /\ UNCHANGED <<now, auth, pc, idx, fetch, results, combined, csv, remote, audit>>

\* ---------------------------------------------- a caller of Authentication
\* number of token requests one authenticator makes
MaxRequests == 3

\* auth.token
AuthGetToken ==
  /\ pc = "auth"
  /\ auth.audit.nreq < MaxRequests
  /\ \E r \in TokenResponses(auth.audit) :
       LET g == GetToken(auth.audit, now, r) IN
       /\ auth' = [auth EXCEPT !.audit = g.auth]
       /\ last' = Call("get_token", "audit", auth.audit, g, r)
  /\ UNCHANGED <<now, pc, idx, fetch, results, combined, csv, sink, remote, audit>>

\* auth.get_credential_domain()
AuthGetDomain ==
  /\ pc = "auth"
  /\ auth.audit.nreq < MaxRequests
  /\ \E r \in TokenResponses(auth.audit) :
       LET g == GetCredentialDomain(auth.audit, now, r) IN
       /\ auth' = [auth EXCEPT !.audit = g.auth]
       /\ last' = Call("get_domain", "audit", auth.audit, g, r)
  /\ UNCHANGED <<now, pc, idx, fetch, results, combined, csv, sink, remote, audit>>

\* ------------------------------------------------ a caller of make_request
\* make_request(url, headers, method, data)
MakeRequest ==
  /\ pc = "exec"
  /\ \E h \in RequestHeaders, d \in RequestData, resp \in HttpResponses :
       last' = [NoCall EXCEPT !.op = "make_request",
                              !.status = resp.status,
                              !.arg = Some([headers |-> h, data |-> d, response |-> resp,
                                            result |-> make_request(h, d, resp)])]
  /\ UNCHANGED <<now, auth, pc, idx, fetch, results, combined, csv, sink, remote, audit>>

\* ------------------------------------------------------- specifications
Idle ==
  /\ now = 0
  /\ auth = [audit |-> NewAuth(EnvTenant, "audit"), data |-> NewAuth(EnvTenant, "data")]
  /\ last = NoCall
  /\ fetch = NewFetch
  /\ results = [t \in Tenants |-> NoResult]
  /\ combined = <<>>
  /\ csv = None
  /\ sink = NoSink
  /\ remote = [created |-> <<>>, data |-> None]
  /\ audit = 0

\* python main.py
Init == Idle /\ pc = "row" /\ idx = 1

Next ==
  \/ ProcessRow
  \/ GetLogsStart
  \/ PageToken
  \/ PageRequest
  \/ AfterLoop
  \/ EndOfRows
  \/ SaveCsv
  \/ SendData
  \/ SinkCreateToken
  \/ SinkCreatePost
  \/ SinkPutToken
  \/ SinkPut
  \/ Tick

Spec == Init /\ [][Next]_vars

\* a program that uses one DomoDataset
SinkInit == Idle /\ pc = "api" /\ idx = 1

SinkNext ==
  \/ ApiConstruct
  \/ ApiUpload
  \/ ApiDownload
  \/ SinkCreateToken
  \/ SinkCreatePost
  \/ SinkPutToken
  \/ SinkPut
  \/ SinkGetToken
  \/ SinkGet
  \/ Tick

SinkSpec == SinkInit /\ [][SinkNext]_vars

\* a program that uses one Authentication
AuthInit == Idle /\ pc = "auth" /\ idx = 1

AuthNext ==
  \/ AuthGetToken
  \/ AuthGetDomain
  \/ Tick

AuthSpec == AuthInit /\ [][AuthNext]_vars

\* python main.py against an audit API that is free to serve non-empty pages
\* for ever, and a token endpoint whose tokens outlive the run while pages
\* are fetched; the interpreter runs the program on: every step of the
\* program that can be taken is taken (the clock is under no such obligation)
EchoNext ==
  \/ ProcessRow
  \/ GetLogsStart
  \/ PageTokenLongLived
  \/ PageRequestEcho
  \/ AfterLoop
  \/ EndOfRows
  \/ SaveCsv
  \/ Tick

EchoRuns ==
  \/ ProcessRow
  \/ GetLogsStart
  \/ PageTokenLongLived
  \/ PageRequestEcho
  \/ AfterLoop
  \/ EndOfRows
  \/ SaveCsv

EchoSpec == Init /\ [][EchoNext]_vars /\ WF_vars(EchoRuns)

\* a program that calls make_request
ExecInit == Idle /\ pc = "exec" /\ idx = 1

ExecNext == MakeRequest

ExecSpec == ExecInit /\ [][ExecNext]_vars

\* ----------------------------------------------------------- properties
Authenticators == {"audit", "data"}

\* staleness as the specification words it: now >= expires_at - buffer
Stale(a, t) == a.expiry = None \/ t >= a.expiry[1] - token_expiry_buffer

\* the fetch of the previous row is over and its locals are still in fetch
Finished == pc = "row" /\ idx > 1

FinishedRow == idx - 1

\* the records of a table, without the domain column
Untag(table) == [i \in 1..Len(table) |-> [src |-> table[i].src, n |-> table[i].n]]

\* C1: a get_token() call sends a request to the token endpoint exactly when
\* the authenticator holds no token or the held token is stale
\* (now >= expires_at - buffer); so a second call inside the window sends
\* none, and the first call once the token is stale sends one.
C1_RefreshExactlyWhenStale ==
  [][\A w \in Authenticators :
       (last'.op = "get_token" /\ last'.auth = w) =>
         /\ auth'[w].nreq \in {auth[w].nreq, auth[w].nreq + 1}
         /\ (auth'[w].nreq = auth[w].nreq + 1)
              <=> (auth[w].token = None \/ Stale(auth[w], now))
         /\ last'.requested <=> (auth'[w].nreq = auth[w].nreq + 1)]_vars

\* C1 witness: the third get_token() of a fetch sends the second token request
\* of its authenticator: one of the two earlier calls found the token fresh
\* and sent none, and this one found it stale.
C1_Witness ==
  /\ pc = "page_request"
  /\ last.op = "get_token" /\ last.requested
  /\ auth.audit.nreq = 2
  /\ Len(fetch.reqlog) = 2

\* C4: get_logs called with start_date > end_date raises DomoActivityLogError
\* before any request is sent (none to the token endpoint, none to the audit
\* endpoint); with start_date <= end_date, equal dates included, the check
\* passes and get_logs stands before its first page request.
C4_RangeCheckedBeforeNetwork ==
  last.op = "get_logs" =>
    LET s == last.arg[1][1]
        e == last.arg[1][2]
    IN /\ (s.valid /\ e.valid /\ s.day > e.day) =>
            /\ Finished /\ results[FinishedRow] = "raised"
            /\ fetch.exit = Some([err |-> "DomoActivityLogError", stage |-> "dates"])
            /\ auth.audit.nreq = 0
            /\ fetch.reqlog = <<>>
       /\ (s.valid /\ e.valid /\ s.day <= e.day) =>
            /\ pc = "page_token"
            /\ results[idx] = "pending"
            /\ fetch.exit = None /\ fetch.offset = 0 /\ fetch.reqlog = <<>>

\* C4 witness: get_logs has just raised for a range with start after end.
C4_Witness ==
  /\ last.op = "get_logs"
  /\ last.arg[1][1].valid /\ last.arg[1][2].valid
  /\ last.arg[1][1].day > last.arg[1][2].day
  /\ Finished /\ results[FinishedRow] = "raised"

\* C5: a token response without access_token makes the refresh raise
\* DomoAuthError and leaves the authenticator without a token; and a
\* get_token() call on an authenticator that holds no token sends a new
\* request instead of returning a cached value.
C5_MissingTokenNeverSet ==
  /\ [](\A w \in Authenticators :
          (last.auth = w /\ last.requested /\ last.resp = "json" /\ ~last.hastoken) =>
             /\ last.err = Some("DomoAuthError")
             /\ auth[w].token = None)
  /\ [][\A w \in Authenticators :
          ( /\ last.auth = w /\ last.requested /\ last.resp = "json" /\ ~last.hastoken
            /\ last'.op = "get_token" /\ last'.auth = w )
          => last'.requested /\ auth'[w].nreq = auth[w].nreq + 1]_vars

\* C5 witness: a refresh answered without access_token has just failed on an
\* authenticator that held a token from an earlier response.
C5_Witness ==
  /\ last.auth = "audit" /\ last.requested /\ last.resp = "json" /\ ~last.hastoken
  /\ auth.audit.expiry # None
  /\ auth.audit.token = None

\* the last page request of a fetch failed in make_request
RequestFailed(f) == Len(f.reqlog) > 0 /\ ~f.reqlog[Len(f.reqlog)].ok

\* the token property raised while a page request was being prepared
TokenFailed(f) == f.exit # None /\ f.exit[1].stage = "token"

\* every page request but the last was answered with a non-empty page
OnlyLastEndsLoop(f) ==
  \A i \in 1..(Len(f.reqlog) - 1) : f.reqlog[i].ok /\ f.reqlog[i].n > 0

\* C2 as stated: whenever a page request fails after some pages were
\* accumulated, for any failure including a failure to obtain the bearer
\* token, get_logs returns the accumulated records instead of raising.
C2_Original ==
  (Finished /\ fetch.all_logs # <<>> /\ (RequestFailed(fetch) \/ TokenFailed(fetch))) =>
    /\ results[FinishedRow] = "table"
    /\ fetch.result # None
    /\ Untag(fetch.result[1]) = fetch.all_logs

\* C2 amended: a failed page request ends the loop and is never retried;
\* when make_request failed (transport, status, invalid JSON) get_logs
\* returns the records accumulated so far, or raises DomoAuthError if the
\* domain lookup after the loop has to refresh the token and that fails;
\* when the token for the page could not be obtained get_logs raises
\* DomoAuthError and returns nothing.
C2_PartialResultOnRequestFailure ==
  /\ OnlyLastEndsLoop(fetch)
  /\ (Finished /\ fetch.all_logs # <<>> /\ RequestFailed(fetch)) =>
       \/ /\ results[FinishedRow] = "table"
          /\ fetch.result # None
          /\ Untag(fetch.result[1]) = fetch.all_logs
          /\ fetch.all_logs = fetch.served
       \/ /\ results[FinishedRow] = "raised"
          /\ fetch.result = None
          /\ fetch.exit = Some([err |-> "DomoAuthError", stage |-> "domain"])
  /\ (Finished /\ fetch.all_logs # <<>> /\ TokenFailed(fetch)) =>
       /\ results[FinishedRow] = "raised"
       /\ fetch.result = None
       /\ fetch.exit = Some([err |-> "DomoAuthError", stage |-> "token"])
       /\ \A i \in 1..Len(fetch.reqlog) : fetch.reqlog[i].ok

\* C2 witness: the second page request failed and get_logs returned the
\* records of the first page.
C2_Witness ==
  /\ Finished /\ RequestFailed(fetch)
  /\ Len(fetch.reqlog) = 2
  /\ results[FinishedRow] = "table"
  /\ Len(fetch.result[1]) = fetch.reqlog[1].n

\* every page request succeeded and the last answer was the empty page
AllPagesThenEmpty(f) ==
  /\ Len(f.reqlog) >= 1
  /\ \A i \in 1..Len(f.reqlog) : f.reqlog[i].ok
  /\ f.reqlog[Len(f.reqlog)].n = 0

\* C3 as stated: when every page request succeeds and the API serves k
\* non-empty pages and then an empty one, get_logs sends k+1 page requests
\* and returns all records of the k pages in the order served.
C3_Original ==
  (Finished /\ AllPagesThenEmpty(fetch)) =>
    LET k == NonEmptyPages(fetch) IN
    /\ Len(fetch.reqlog) = k + 1
    /\ IF k = 0 THEN results[FinishedRow] = "absent"
       ELSE /\ results[FinishedRow] = "table"
            /\ fetch.result # None
            /\ Untag(fetch.result[1]) = fetch.served

\* C3 amended: the loop is left only after an empty page or a failed request
\* (a short non-empty page does not end it) and no request follows the first
\* empty page; with k non-empty pages and then an empty one, all requests
\* successful, get_logs has sent k+1 requests and returns all records of the
\* k pages in the order served, unless no domain was observed and the refresh
\* the domain lookup after the loop then makes fails: it raises DomoAuthError.
C3_StopsAtFirstEmptyPage ==
  /\ OnlyLastEndsLoop(fetch)
  /\ pc = "after_loop" =>
       /\ Len(fetch.reqlog) >= 1
       /\ ~fetch.reqlog[Len(fetch.reqlog)].ok \/ fetch.reqlog[Len(fetch.reqlog)].n = 0
  /\ (Finished /\ AllPagesThenEmpty(fetch)) =>
       LET k == NonEmptyPages(fetch) IN
       /\ Len(fetch.reqlog) = k + 1
       /\ \A i \in 1..Len(fetch.reqlog) : fetch.reqlog[i].offset = (i - 1) * BatchSize
       /\ IF k = 0 THEN results[FinishedRow] = "absent" /\ fetch.result = None
          ELSE \/ /\ results[FinishedRow] = "table"
                  /\ fetch.result # None
                  /\ Untag(fetch.result[1]) = fetch.served
               \/ /\ results[FinishedRow] = "raised"
                  /\ fetch.exit = Some([err |-> "DomoAuthError", stage |-> "domain"])
                  /\ auth.audit.domain = None

\* C3 witness: pages of 1, BatchSize and 0 records: three requests, and all
\* records returned although the first page was short.
C3_Witness ==
  /\ Finished /\ AllPagesThenEmpty(fetch)
  /\ Len(fetch.reqlog) = 3
  /\ fetch.reqlog[1].n = 1 /\ fetch.reqlog[2].n = BatchSize
  /\ results[FinishedRow] = "table"
  /\ Len(fetch.result[1]) = 1 + BatchSize

C7_RunContinuesPastFailures ==
  /\ [](pc # "crashed")
  /\ []((pc \in {"save", "send", "done"} \/ (pc = "row" /\ idx > NTenants)) =>
          \A t \in Tenants : results[t] # "pending")
  /\ [][/\ Len(combined') >= Len(combined)
        /\ SubSeq(combined', 1, Len(combined)) = combined
        /\ (\E t \in Tenants : results[t] # "raised" /\ results'[t] = "raised") =>
             (combined' = combined /\ idx' = idx + 1 /\ pc' = "row")]_vars

\* C7 witness: the first row raised and the second row was still processed
\* and returned a table.
C7_Witness ==
  /\ pc = "row" /\ idx = 3
  /\ results[1] = "raised" /\ results[2] = "table"

\* the requests of the current call of the sink, by method
Methods(s) == [i \in 1..Len(s.reqs) |-> s.reqs[i].method]

\* C8 as stated: a run that ends after every tenant yielded no data, or
\* after the upload step failed, has written neither the local CSV file nor
\* the remote dataset data.
C8_Original ==
  (pc = "done" /\ (combined = <<>> \/ sink.outcome = "raised")) =>
    csv = None /\ remote.data = None

\* C8 amended: a run in which every tenant yielded no data ends without the
\* CSV file, without a sink and without any dataset request; a run whose
\* upload step fails ends with the CSV file of the combined table already
\* written (it is saved before the upload starts), and with no remote data
\* unless the failure came after the PUT itself was sent.
C8_NoOutputWithoutData ==
  pc = "done" =>
    /\ combined = <<>> =>
         /\ csv = None
         /\ sink = NoSink
         /\ remote = [created |-> <<>>, data |-> None]
    /\ combined # <<>> =>
         /\ csv = Some(ToCsv(combined))
         /\ sink.outcome \in {"ok", "raised"}
    /\ sink.outcome = "raised" =>
         /\ csv = Some(ToCsv(combined))
         /\ remote.data # None =>
              (sink.stage = "put" /\ Len(sink.reqs) >= 1
               /\ sink.reqs[Len(sink.reqs)].method = "PUT")
    /\ sink.outcome = "ok" =>
         /\ remote.data # None
         /\ remote.data[1].csv = csv[1]

\* C8 witness: the run ended with the upload step failed before any PUT, the
\* CSV file written and no remote data.
C8_Witness ==
  /\ pc = "done"
  /\ sink.outcome = "raised" /\ sink.stage = "create"
  /\ csv # None /\ remote.data = None

\* C9: an upload on a sink without dataset id sends exactly one POST before
\* its PUT, the PUT goes to the id the create returned, and a failed create
\* is followed by no PUT; an upload on a sink that has an id sends no POST
\* and its PUT goes to that id.
C9_CreateThenPut ==
  sink.op = "upload" =>
    IF sink.dsid0 = None
      THEN /\ Methods(sink) \in {<<>>, <<"POST">>, <<"POST", "PUT">>}
           /\ Len(sink.reqs) = 2 =>
                /\ sink.returned # None
                /\ sink.reqs[2].target = sink.returned
                /\ sink.returned[1] = remote.created[Len(remote.created)]
           /\ (sink.outcome = "raised" /\ sink.stage = "create") => Len(sink.reqs) <= 1
           /\ sink.pc \in {"put_token", "put"} => Methods(sink) = <<"POST">>
      ELSE /\ Methods(sink) \in {<<>>, <<"PUT">>}
           /\ Len(sink.reqs) = 1 => sink.reqs[1].target = sink.dsid0
           /\ sink.pc \in {"put_token", "put"}
                \/ (sink.pc = "idle" /\ sink.stage = "put")

\* C9 witness: an upload without id has sent its POST and then its PUT, and
\* succeeded.
C9_Witness ==
  /\ sink.op = "upload" /\ sink.dsid0 = None
  /\ Methods(sink) = <<"POST", "PUT">>
  /\ sink.outcome = "ok"

\* C10: whatever fails inside create_dataset, upload_data or get_data (the
\* token refresh, the request, the shape of the create response), the caller
\* sees DomoDatasetError and no other exception type.
C10_SingleErrorType ==
  /\ sink.outcome = "raised" => sink.err = Some("DomoDatasetError")
  /\ sink.err # None => sink.outcome = "raised"
  /\ (sink.pc = "idle" /\ sink.op \in {"upload", "download"}
      /\ last.op = "get_token" /\ last.err # None) => sink.outcome = "raised"

\* C10 witness: the token refresh for the PUT of an upload failed with
\* DomoAuthError and upload_data raised.
C10_Witness ==
  /\ sink.op = "upload" /\ sink.outcome = "raised" /\ sink.stage = "put"
  /\ last.op = "get_token" /\ last.auth = "data"
  /\ last.err = Some("DomoAuthError")

\* C11 as stated: a get_domain() call sends a request to the token endpoint
\* exactly when no response has ever supplied a domain to that authenticator;
\* once one has, every later get_domain() call returns a domain and sends no
\* request.
C11_Original ==
  [][\A w \in Authenticators :
       (last'.op = "get_domain" /\ last'.auth = w) =>
         /\ last'.requested <=> ~auth[w].seen
         /\ auth[w].seen => (last'.err = None /\ auth'[w].domain # None)]_vars

\* a response came and its status is not 2xx
Non2xx(status) == status # 0 /\ ~(status >= 200 /\ status < 300)

\* C12 as stated: one get_token() or get_domain() call sends at most one
\* request to the token endpoint, and when that request meets a transport
\* failure, a non-2xx status, a body that is not JSON or a JSON body without
\* access_token, the call raises DomoAuthError and sends no second request.
C12_Original ==
  [][\A w \in Authenticators :
       (last'.op \in {"get_token", "get_domain"} /\ last'.auth = w) =>
         /\ auth'[w].nreq \in {auth[w].nreq, auth[w].nreq + 1}
         /\ last'.requested <=> (auth'[w].nreq = auth[w].nreq + 1)
         /\ ( /\ last'.requested
              /\ \/ last'.resp \in {"transport", "badjson"}
                 \/ Non2xx(last'.status)
                 \/ (last'.resp = "json" /\ ~last'.hastoken) )
              => last'.err = Some("DomoAuthError")]_vars

\* C12, the part that holds: at most one request per call, and a transport
\* failure, a status of 400..599, a body that is not JSON or a JSON body
\* without access_token makes the call raise DomoAuthError with no second
\* request; a call raises only after a request it sent.
C12_FailureEndsTheCall ==
  [][\A w \in Authenticators :
       (last'.op \in {"get_token", "get_domain"} /\ last'.auth = w) =>
         /\ auth'[w].nreq \in {auth[w].nreq, auth[w].nreq + 1}
         /\ last'.requested <=> (auth'[w].nreq = auth[w].nreq + 1)
         /\ ( /\ last'.requested
              /\ \/ last'.resp \in {"transport", "badjson"}
                 \/ raise_for_status(last'.status)
                 \/ (last'.resp = "json" /\ ~last'.hastoken) )
              => last'.err = Some("DomoAuthError")
         /\ last'.err # None =>
              (last'.requested /\ last'.err = Some("DomoAuthError"))]_vars

\* the records of tenant t in a table, in the order they have there
OfTenant(table, t) == SelectSeq(table, LAMBDA rec : rec.src = t)

\* C13: all_activity_data is the concatenation of the tables the rows
\* returned, in row order: when a row ends, its table (nothing, when get_logs
\* returned None or raised) is appended; so the combined table holds exactly
\* the records of the tenants that returned a table, each tenant's records in
\* the order they were fetched, and every record is tagged with the value its
\* own tenant's authenticator gave (that tenant's domain, or absent when the
\* token response carried none), never with another tenant's domain.
C13_CombinedIsConcatenation ==
  /\ [](/\ \A i \in DOMAIN combined :
             /\ results[combined[i].src] = "table"
             /\ combined[i].domain \in {None, Some(combined[i].src)}
        /\ \A t \in Tenants :
             /\ results[t] = "table" => OfTenant(combined, t) # <<>>
             /\ \A i \in DOMAIN OfTenant(combined, t) :
                  /\ OfTenant(combined, t)[i].n = i
                  /\ OfTenant(combined, t)[i].domain = OfTenant(combined, t)[1].domain
        /\ \A i \in DOMAIN combined : \A j \in DOMAIN combined :
             i < j => combined[i].src <= combined[j].src
        /\ Finished =>
             OfTenant(combined, FinishedRow)
               = (IF fetch.result = None THEN <<>> ELSE fetch.result[1]))
  /\ [][idx' # idx =>
          combined' = combined \o (IF fetch'.result = None THEN <<>> ELSE fetch'.result[1])]_vars

\* C13 witness: both tenants returned a table; the combined table holds the
\* records of the first tagged with its domain, then those of the second
\* tagged with its own.
C13_Witness ==
  /\ pc = "row" /\ idx = 3
  /\ results[1] = "table" /\ results[2] = "table"
  /\ OfTenant(combined, 1) # <<>> /\ OfTenant(combined, 2) # <<>>
  /\ combined[1].domain = Some(1)
  /\ combined[Len(combined)].domain = Some(2)

\* C14 as stated: make_request raises on every response whose status is not
\* 2xx and returns nothing of it; on a 2xx response it returns the decoded
\* JSON when the response Content-Type contains "application/json" (and the
\* body parses) and the text otherwise; and it sends data as JSON exactly
\* when the request Content-Type is "application/json" or unset, as a raw
\* payload otherwise.
C14_Original ==
  last.op = "make_request" =>
    LET a == last.arg[1]
        json == ContainsJson(a.response.content_type)
    IN /\ Non2xx(a.response.status) => a.result.outcome = "raised"
       /\ (a.response.status # 0 /\ ~Non2xx(a.response.status)) =>
            /\ (json /\ a.response.parses) => a.result.outcome = "json"
            /\ ~json => a.result.outcome = "text"
       /\ a.data # None =>
            a.result.sent =
              (IF a.headers.content_type \in {None, Some(<<"application/json">>)}
                 THEN "json" ELSE "data")

\* C14, the part that holds: make_request raises RequestException on a
\* transport failure and on a status of 400..599; every other response, 3xx
\* included, is returned: decoded when its Content-Type contains
\* "application/json", as text otherwise; data is sent as JSON exactly when
\* the request Content-Type is "application/json" or unset.
C14_RaisesForErrorStatus ==
  last.op = "make_request" =>
    LET a == last.arg[1]
        json == ContainsJson(a.response.content_type)
    IN /\ (a.response.status = 0 \/ raise_for_status(a.response.status)) =>
            (a.result.outcome = "raised" /\ a.result.err = Some("RequestException"))
       /\ (a.response.status # 0 /\ ~raise_for_status(a.response.status)) =>
            /\ (json /\ a.response.parses) => a.result.outcome = "json"
            /\ (json /\ ~a.response.parses) => a.result.outcome = "raised"
            /\ ~json => a.result.outcome = "text"
       /\ a.data # None =>
            a.result.sent =
              (IF a.headers.content_type \in {None, Some(<<"application/json">>)}
                 THEN "json" ELSE "data")
       /\ a.data = None => a.result.sent = "nothing"

\* get_logs is running
InFetch == pc \in {"get_logs", "page_token", "page_request", "after_loop"}

\* C15 as stated: whatever the audit API answers, also when it answers every
\* page request with the same non-empty batch, a fetch that has started
\* eventually returns or raises.
C15_Original == InFetch ~> ~InFetch

Triple(a) == <<a.token, a.expiry, a.domain>>

\* the expires_in values a token response may carry, in minutes
Lifetimes == {DefaultExpiresIn \div 60, 300 \div 60, 600 \div 60}

\* C17 as stated: after any refresh attempt, successful or failed, the triple
\* (access_token, expires_at, domain) of the authenticator is either unchanged
\* or entirely made of the values of the one response that succeeded.
C17_Original ==
  [][\A w \in Authenticators :
       (last'.auth = w /\ last'.requested) =>
         \/ Triple(auth'[w]) = Triple(auth[w])
         \/ /\ last'.err = None /\ last'.hastoken
            /\ auth'[w].token = Some(auth'[w].nreq)
            /\ auth'[w].expiry \in {Some(now + m) : m \in Lifetimes}
            /\ auth'[w].domain \in {None, Some(auth'[w].cred)}]_vars

\* C18 as stated: whenever get_token() returns, the token it returns is
\* present and not stale at that time (now < expires_at - buffer), whatever
\* expires_in the token endpoint reported.
C18_Original ==
  [][\A w \in Authenticators :
       (last'.op = "get_token" /\ last'.auth = w /\ last'.err = None) =>
         /\ auth'[w].token # None
         /\ ~Stale(auth'[w], now')]_vars

\* C18 amended: whenever get_token() returns, the token is present, and it
\* is either the held token, which is then not stale, or the token of the
\* response to the request this call sent, which expires expires_in after
\* now and is stale already at the return exactly when expires_in is at most
\* the buffer.
C18_ReturnsHeldFreshOrNewToken ==
  [][\A w \in Authenticators :
       (last'.op = "get_token" /\ last'.auth = w /\ last'.err = None) =>
         /\ auth'[w].token # None
         /\ now' = now
         /\ IF last'.requested
              THEN /\ auth'[w].token = Some(auth'[w].nreq)
                   /\ auth'[w].token # auth[w].token
                   /\ \E m \in Lifetimes :
                        /\ auth'[w].expiry = Some(now + m)
                        /\ Stale(auth'[w], now') <=> m <= token_expiry_buffer
              ELSE /\ auth'[w] = auth[w]
                   /\ ~Stale(auth'[w], now')]_vars

\* C18 witness: get_token() has just returned the token of a response with
\* expires_in = 300 s: the token is present and stale.
C18_Witness ==
  /\ last.op = "get_token" /\ last.auth = "audit"
  /\ last.requested /\ last.err = None
  /\ auth.audit.token # None
  /\ auth.audit.expiry = Some(now + token_expiry_buffer)
  /\ Stale(auth.audit, now)

\* C19: the page requests of one fetch carry the offsets 0, batch_size,
\* 2*batch_size, ... in this order, one step of batch_size after each
\* non-empty page whatever the number of its records, and no offset twice.
C19_OffsetsAdvanceByBatchSize ==
  /\ \A i \in DOMAIN fetch.reqlog : fetch.reqlog[i].offset = (i - 1) * BatchSize
  /\ \A i \in DOMAIN fetch.reqlog : \A j \in DOMAIN fetch.reqlog :
       i # j => fetch.reqlog[i].offset # fetch.reqlog[j].offset
  /\ fetch.offset = BatchSize * NonEmptyPages(fetch)
  /\ pc \in {"page_token", "page_request"} => fetch.offset = BatchSize * Len(fetch.reqlog)

\* C19 witness: the first page held fewer records than batch_size and the
\* second request was sent with the offset batch_size.
C19_Witness ==
  /\ Len(fetch.reqlog) = 2
  /\ fetch.reqlog[1].n > 0 /\ fetch.reqlog[1].n < BatchSize
  /\ fetch.reqlog[2].offset = BatchSize

\* the sink exists and was constructed without a dataset id
NoIdGiven == sink.pc # "none" /\ sink.op # "construct" /\ sink.dsid # Some(GivenId)

\* C20 as stated: over any sequence of upload calls a sink constructed
\* without a dataset id creates at most one remote dataset; after the first
\* successful create it holds the returned id and every later upload sends
\* only the PUT to that id.
C20_Original ==
  NoIdGiven =>
    /\ Len(remote.created) <= 1
    /\ sink.dsid # None => sink.dsid = Some(remote.created[1])
    /\ (sink.op = "upload" /\ sink.dsid0 # None) =>
         /\ Methods(sink) \in {<<>>, <<"PUT">>}
         /\ Len(sink.reqs) = 1 => sink.reqs[1].target = sink.dsid0

\* C20 amended: at most one create of the sink succeeds: a POST is sent only
\* while the sink holds no id, the id it comes to hold is the one the service
\* gave to the dataset created last, it never changes afterwards, and every
\* later upload sends only the PUT to that id.  A create that fails after the
\* service carried out the POST (the response is lost, or has no usable id)
\* leaves a dataset behind and the sink without id, so that the next upload
\* creates another one.
C20_OneSuccessfulCreate ==
  /\ [](NoIdGiven =>
          /\ sink.dsid # None =>
               /\ remote.created # <<>>
               /\ sink.dsid = Some(remote.created[Len(remote.created)])
          /\ (sink.op = "upload" /\ sink.dsid0 # None) =>
               /\ Methods(sink) \in {<<>>, <<"PUT">>}
               /\ Len(sink.reqs) = 1 => sink.reqs[1].target = sink.dsid0)
  /\ [][/\ sink.dsid # None => sink'.dsid = sink.dsid
        /\ remote'.created # remote.created =>
             /\ sink.dsid = None
             /\ Len(remote'.created) = Len(remote.created) + 1
        /\ (sink.pc # "none" /\ sink.dsid = None /\ sink'.dsid # None) =>
             /\ remote'.created # remote.created
             /\ sink'.dsid = Some(remote'.created[Len(remote'.created)])]_vars

\* C20 witness: the first upload created the dataset; a later upload has
\* succeeded with one PUT to the same id and no POST.
C20_Witness ==
  /\ NoIdGiven /\ sink.calls = 2
  /\ sink.op = "upload" /\ sink.outcome = "ok"
  /\ sink.dsid0 = Some(CreatedId(1)) /\ sink.dsid = sink.dsid0
  /\ Methods(sink) = <<"PUT">>
  /\ Len(remote.created) = 1

====
